---- MODULE Spec2Model ----
(***************************************************************************)
(* Chunk-shape resolution and boundary-break detection of                   *)
(* xarray/core/chunk.py: the memoised _get_breaks_cached and _get_chunk.    *)
(***************************************************************************)
EXTENDS Integers, Sequences, FiniteSets, TLC

VARIABLES
    cache,          \* lru_cache store of _get_breaks_cached, least recently used first
    args,           \* arguments of a direct _get_breaks_cached call
    calls,          \* _get_breaks_cached calls made by the last operation
    var,            \* the Variable given to _get_chunk
    chunks,         \* the chunks argument of _get_chunk
    outcome,        \* "idle", "returned" or "raised": how the last _get_chunk ended
    engine,         \* what normalize_chunks does for this variable and request
    engine_called,  \* whether the last _get_chunk called normalize_chunks
    candidates,     \* the chunk_shape the last _get_chunk gave to normalize_chunks
    engine_ret,     \* what normalize_chunks did on that call
    result,         \* the dict the last _get_chunk returned, in insertion order
    warnings        \* the warnings the last _get_chunk emitted, in order

vars == <<cache, args, calls, var, chunks, outcome, engine, engine_called,
          candidates, engine_ret, result, warnings>>

----------------------------------------------------------------------------
(* Bounds *)

\* largest dimension size and uniform preferred length of the detector inputs
MaxSize == 5
MaxPref == 6
\* largest dimension size of the keys used against the cache, and the cache
\* capacity the model runs with (the source's capacity is 512, chunk.py:16)
CacheMaxSize == 2
CacheCap == 2
\* largest dimension size of the variables given to _get_chunk
ResMaxSize == 3

----------------------------------------------------------------------------
(* Python values: None, an int, the string "auto", a tuple of ints *)

NoneV == [tag |-> "none", n |-> 0, seq |-> <<>>]
AutoV == [tag |-> "auto", n |-> 0, seq |-> <<>>]
IntV(k) == [tag |-> "int", n |-> k, seq |-> <<>>]
SeqV(s) == [tag |-> "seq", n |-> 0, seq |-> s]

\* Python truth value: None, 0 and the empty tuple are false
Truthy(v) ==
    \/ v.tag = "auto"
    \/ v.tag = "int" /\ v.n # 0
    \/ v.tag = "seq" /\ v.seq # <<>>

\* a or b
Or(a, b) == IF Truthy(a) THEN a ELSE b

RECURSIVE Sum(_)
Sum(s) == IF s = <<>> THEN 0 ELSE s[1] + Sum(Tail(s))

ToSet(s) == {s[i] : i \in 1..Len(s)}

\* s[:-1]
ButLast(s) == IF s = <<>> THEN <<>> ELSE SubSeq(s, 1, Len(s) - 1)

\* itertools.accumulate(s)
RECURSIVE accumulate_from(_, _)
accumulate_from(s, total) ==
    IF s = <<>> THEN <<>>
    ELSE <<total + s[1]>> \o accumulate_from(Tail(s), total + s[1])

accumulate(s) == accumulate_from(s, 0)

\* range(start, stop, step) with step > 0, as the set "in" tests against
range(start, stop, step) ==
    {x \in start..(stop - 1) : (x - start) % step = 0}

----------------------------------------------------------------------------
(* _get_breaks_cached: the function under the cache *)

range_no_step(size, preferred_chunk_sizes) ==
    IF preferred_chunk_sizes.tag = "int"
    THEN range(preferred_chunk_sizes.n, size, 1)
    ELSE ToSet(accumulate(ButLast(preferred_chunk_sizes.seq)))

preferred_stops(size, preferred_chunk_sizes) ==
    IF preferred_chunk_sizes.tag = "int"
    THEN range(preferred_chunk_sizes.n, size, preferred_chunk_sizes.n)
    ELSE ToSet(accumulate(ButLast(preferred_chunk_sizes.seq)))

actual_stops_with_last(chunk_sizes) == accumulate(chunk_sizes)

actual_stops(chunk_sizes) == accumulate(ButLast(chunk_sizes))

\* next(itertools.compress(stops, (a not in preferred for a in stops))),
\* None on StopIteration
RECURSIVE next_disagrees(_, _)
next_disagrees(stops, preferred) ==
    IF stops = <<>> THEN NoneV
    ELSE IF stops[1] \notin preferred THEN IntV(stops[1])
    ELSE next_disagrees(Tail(stops), preferred)

get_breaks_int_as_tuple(size, chunk_sizes, preferred_chunk_sizes) ==
    LET as_seq == IF preferred_chunk_sizes.tag = "int"
                  THEN <<preferred_chunk_sizes.n>>
                  ELSE preferred_chunk_sizes.seq
    IN next_disagrees(actual_stops(chunk_sizes),
                      ToSet(accumulate(ButLast(as_seq))))

get_breaks(size, chunk_sizes, preferred_chunk_sizes) ==
    IF preferred_chunk_sizes.tag = "int" /\ preferred_chunk_sizes.n = 1
    THEN NoneV
    ELSE next_disagrees(actual_stops(chunk_sizes),
                        preferred_stops(size, preferred_chunk_sizes))

----------------------------------------------------------------------------
(* functools.lru_cache(maxsize) around it *)

maxsize == CacheCap

make_key_without_preferred(size, chunk_sizes, preferred_chunk_sizes) ==
    <<size, chunk_sizes, NoneV>>

\* the key lru_cache builds from the keyword arguments
make_key(size, chunk_sizes, preferred_chunk_sizes) ==
    <<size, chunk_sizes, preferred_chunk_sizes>>

\* position of the key in the store, 0 when absent
cache_find(c, key) ==
    IF \E i \in 1..Len(c) : c[i].key = key
    THEN CHOOSE i \in 1..Len(c) : c[i].key = key
    ELSE 0

cache_remove(c, i) == SubSeq(c, 1, i - 1) \o SubSeq(c, i + 1, Len(c))

\* one call of the wrapper: the value returned, the store afterwards, and
\* whether it was a hit and whether an entry was evicted
get_breaks_cached(c, size, chunk_sizes, preferred_chunk_sizes) ==
    LET key == make_key(size, chunk_sizes, preferred_chunk_sizes)
        i == cache_find(c, key)
    IN IF i > 0
       THEN [ret |-> c[i].val,
             cache |-> Append(cache_remove(c, i), c[i]),
             hit |-> TRUE, evicted |-> FALSE]
       ELSE LET v == get_breaks(size, chunk_sizes, preferred_chunk_sizes)
                full == Len(c) >= maxsize
                kept == IF full THEN Tail(c) ELSE c
            IN [ret |-> v,
                cache |-> Append(kept, [key |-> key, val |-> v]),
                hit |-> FALSE, evicted |-> full]

\* the record kept of one call
call_record(size, chunk_sizes, preferred_chunk_sizes, r) ==
    [size |-> size, chunk_sizes |-> chunk_sizes,
     preferred_chunk_sizes |-> preferred_chunk_sizes,
     ret |-> r.ret, hit |-> r.hit, evicted |-> r.evicted]

----------------------------------------------------------------------------
(* Input sets *)

\* the partitions of n: sequences of positive integers summing to n
RECURSIVE Partitions(_)
Partitions(n) ==
    IF n = 0 THEN {<<>>}
    ELSE UNION {{<<k>> \o s : s \in Partitions(n - k)} : k \in 1..n}

\* valid detector inputs: size > 0, chunk_sizes a partition of size,
\* preferred a positive integer or a partition of size
KeysUpTo(maxn, maxp) ==
    UNION {{[size |-> n, chunk_sizes |-> cs, preferred_chunk_sizes |-> p] :
              cs \in Partitions(n),
              p \in {IntV(k) : k \in 1..maxp} \cup {SeqV(s) : s \in Partitions(n)}} :
           n \in 1..maxn}

\* the worked examples of the documentation
ExampleInputs ==
    {[size |-> 10, chunk_sizes |-> <<3, 7>>, preferred_chunk_sizes |-> SeqV(<<4, 6>>)],
     [size |-> 9, chunk_sizes |-> <<2, 7>>, preferred_chunk_sizes |-> IntV(3)],
     [size |-> 9, chunk_sizes |-> <<2, 7>>, preferred_chunk_sizes |-> SeqV(<<3, 3, 3>>)]}

DetectInputs == KeysUpTo(MaxSize, MaxPref) \cup ExampleInputs

CacheKeys == KeysUpTo(CacheMaxSize, 2)

NoArgs == [size |-> 1, chunk_sizes |-> <<1>>, preferred_chunk_sizes |-> IntV(1)]

NoVar == [is_index |-> FALSE, dims |-> <<>>, shape |-> <<>>, preferred_chunks |-> <<>>]

NoChunks == [scalar |-> FALSE, val |-> NoneV, map |-> <<>>]

NoEngineRet == [raised |-> FALSE, out |-> <<>>]

----------------------------------------------------------------------------
(* Direct calls of _get_breaks_cached *)

resolver_vars == <<var, chunks, outcome, engine, engine_called, candidates,
                   engine_ret, result, warnings>>

DetectFirstBreak(a) ==
    LET r == get_breaks_cached(cache, a.size, a.chunk_sizes, a.preferred_chunk_sizes)
    IN /\ cache' = r.cache
       /\ args' = a
       /\ calls' = <<call_record(a.size, a.chunk_sizes, a.preferred_chunk_sizes, r)>>
       /\ UNCHANGED resolver_vars

\* _get_breaks_cached.cache_clear()
cache_clear ==
    /\ cache # <<>>
    /\ cache' = <<>>
    /\ calls' = <<>>
    /\ UNCHANGED <<args>>
    /\ UNCHANGED resolver_vars

InitResolverIdle ==
    /\ var = NoVar
    /\ chunks = NoChunks
    /\ outcome = "idle"
    /\ engine = NoEngineRet
    /\ engine_called = FALSE
    /\ candidates = <<>>
    /\ engine_ret = NoEngineRet
    /\ result = <<>>
    /\ warnings = <<>>

\* the detector applied to every valid input, starting from an empty cache
InitDetect ==
    /\ cache = <<>>
    /\ args \in DetectInputs
    /\ calls = <<>>
    /\ InitResolverIdle

NextDetect == DetectFirstBreak(args)

SpecDetect == InitDetect /\ [][NextDetect]_vars

\* any sequence of calls and clears against the bounded cache
InitCache ==
    /\ cache = <<>>
    /\ args = NoArgs
    /\ calls = <<>>
    /\ InitResolverIdle

CallAny == \E a \in CacheKeys : DetectFirstBreak(a)

NextCache == CallAny \/ cache_clear

SpecCache == InitCache /\ [][NextCache]_vars

----------------------------------------------------------------------------
(* _get_chunk *)

KeyError == [tag |-> "KeyError", n |-> 0, seq |-> <<>>]

never_IndexVariable(v) == FALSE

\* isinstance(var, IndexVariable)
is_IndexVariable(v) == v.is_index

\* mapping.get(key, None)
dict_get(mapping, key) == IF key \in DOMAIN mapping THEN mapping[key] ELSE NoneV

\* preferred_chunks.get(dim, size) for each dimension
preferred_chunk_shape(v) ==
    [i \in 1..Len(v.dims) |->
        IF v.dims[i] \in DOMAIN v.preferred_chunks
        THEN v.preferred_chunks[v.dims[i]]
        ELSE IntV(v.shape[i])]

\* a Number or "auto" becomes dict.fromkeys(dims, chunks)
chunks_as_dict(v, ch) ==
    IF ch.scalar THEN [d \in ToSet(v.dims) |-> ch.val] ELSE ch.map

preferred_or_requested(requested, preferred_chunk_sizes) ==
    Or(preferred_chunk_sizes, requested)

\* chunks.get(dim, None) or preferred_chunk_sizes
requested_or_preferred(requested, preferred_chunk_sizes) ==
    Or(requested, preferred_chunk_sizes)

\* the chunk_shape given to normalize_chunks
chunk_shape(v, ch) ==
    [i \in 1..Len(v.dims) |->
        requested_or_preferred(dict_get(chunks_as_dict(v, ch), v.dims[i]),
                               preferred_chunk_shape(v)[i])]

var_ndim(v) == Len(v.dims)

\* var.size: the product of the shape
RECURSIVE Product(_)
Product(s) == IF s = <<>> THEN 1 ELSE s[1] * Product(Tail(s))

var_size(v) == Product(v.shape)

preferred_chunk_shape_getitem(v, i) == preferred_chunk_shape(v)[i]

\* preferred_chunks[dim], KeyError when the dimension has no entry
preferred_chunks_getitem(v, i) ==
    IF v.dims[i] \in DOMAIN v.preferred_chunks
    THEN v.preferred_chunks[v.dims[i]]
    ELSE KeyError

warning_one_based(dim, disagreement) == <<dim, disagreement.n + 1>>

\* the payload of emit_user_level_warning: the dimension and the index
emit_user_level_warning(dim, disagreement) == <<dim, disagreement.n>>

\* the loop over zip(dims, shape, chunk_shape) from position i on, threading
\* the cache, the warnings emitted and the detector calls made
RECURSIVE warn_loop(_, _, _, _, _, _)
warn_loop(v, normalized, i, c, w, log) ==
    IF i > Len(v.dims) THEN [cache |-> c, warnings |-> w, calls |-> log]
    ELSE LET preferred_chunk_sizes == preferred_chunks_getitem(v, i)
         IN IF preferred_chunk_sizes = KeyError
            THEN warn_loop(v, normalized, i + 1, c, w, log)
            ELSE LET r == get_breaks_cached(c, v.shape[i], normalized[i],
                                            preferred_chunk_sizes)
                     w2 == IF Truthy(r.ret)
                           THEN Append(w, emit_user_level_warning(v.dims[i], r.ret))
                           ELSE w
                 IN warn_loop(v, normalized, i + 1, r.cache, w2,
                              Append(log, call_record(v.shape[i], normalized[i],
                                                      preferred_chunk_sizes, r)))

dict_zip_first(keys, values) == [i \in 1..Len(keys) |-> <<keys[i], values[1]>>]

\* dict(zip(dims, chunk_shape)), as the ordered items
dict_zip(keys, values) == [i \in 1..Len(keys) |-> <<keys[i], values[i]>>]

\* chunkmanager.normalize_chunks, deterministic for its inputs: it fails, or
\* returns one valid partition per dimension ((0,) for an empty dimension);
\* it cannot return for a candidate given as a sequence that does not sum to
\* the size
RECURSIVE valid_chunk_shapes(_)
valid_chunk_shapes(shape) ==
    IF shape = <<>> THEN {<<>>}
    ELSE {<<p>> \o rest :
            p \in (IF shape[1] = 0 THEN {<<0>>} ELSE Partitions(shape[1])),
            rest \in valid_chunk_shapes(Tail(shape))}

normalize_chunks(raw, shape) ==
    {[raised |-> TRUE, out |-> <<>>]} \cup
    (IF \E i \in 1..Len(raw) : raw[i].tag = "seq" /\ Sum(raw[i].seq) # shape[i]
     THEN {}
     ELSE {[raised |-> FALSE, out |-> o] : o \in valid_chunk_shapes(shape)})

detector_vars == <<args>>

\* an IndexVariable: the empty dict at once
GetChunkIndex ==
    /\ is_IndexVariable(var)
    /\ outcome' = "returned"
    /\ engine_called' = FALSE
    /\ candidates' = <<>>
    /\ engine_ret' = NoEngineRet
    /\ result' = <<>>
    /\ warnings' = <<>>
    /\ calls' = <<>>
    /\ UNCHANGED <<cache, var, chunks, engine, detector_vars>>

\* normalize_chunks raises: the exception leaves _get_chunk
GetChunkRaise ==
    /\ ~is_IndexVariable(var)
    /\ engine.raised
    /\ engine_ret' = engine
    /\ outcome' = "raised"
    /\ engine_called' = TRUE
    /\ candidates' = chunk_shape(var, chunks)
    /\ result' = <<>>
    /\ warnings' = <<>>
    /\ calls' = <<>>
    /\ UNCHANGED <<cache, var, chunks, engine, detector_vars>>

\* normalize_chunks returns: warn per dimension, return the dict
GetChunkReturn ==
    /\ ~is_IndexVariable(var)
    /\ ~engine.raised
    /\ engine_ret' = engine
    /\ LET loop == IF var_size(var) # 0
                   THEN warn_loop(var, engine.out, 1, cache, <<>>, <<>>)
                   ELSE [cache |-> cache, warnings |-> <<>>, calls |-> <<>>]
       IN /\ cache' = loop.cache
          /\ warnings' = loop.warnings
          /\ calls' = loop.calls
    /\ result' = dict_zip(var.dims, engine.out)
    /\ outcome' = "returned"
    /\ engine_called' = TRUE
    /\ candidates' = chunk_shape(var, chunks)
    /\ UNCHANGED <<var, chunks, engine, detector_vars>>

GetChunk == GetChunkIndex \/ GetChunkRaise \/ GetChunkReturn

\* the variables and requests _get_chunk is given
DimNames == <<"x", "y">>
OtherDim == "z"

\* preferred descriptions on record: a positive integer, or a sequence, which
\* the encoding may hold whether or not it sums to the dimension's size
RecordedPreferred ==
    {IntV(1), IntV(2), SeqV(<<1, 1>>), SeqV(<<1, 2>>), SeqV(<<2, 1>>)}

PartialMaps(names, values) == UNION {[S -> values] : S \in SUBSET names}

Variables ==
    UNION {{[is_index |-> ix, dims |-> SubSeq(DimNames, 1, n), shape |-> sh,
             preferred_chunks |-> pc] :
              ix \in (IF n = 1 THEN BOOLEAN ELSE {FALSE}),
              sh \in [1..n -> 0..ResMaxSize],
              pc \in PartialMaps({DimNames[i] : i \in 1..n}, RecordedPreferred)} :
           n \in 0..Len(DimNames)}

\* requests: a Number or "auto", or a dict that may hold None or 0 for the
\* first dimension, and may name a dimension the variable does not have
Requests ==
    {[scalar |-> TRUE, val |-> v, map |-> <<>>] : v \in {IntV(0), IntV(2), AutoV}}
    \cup
    {[scalar |-> FALSE, val |-> NoneV, map |-> m] :
        m \in {m \in PartialMaps(ToSet(DimNames) \cup {OtherDim},
                                 {NoneV, IntV(0), IntV(2)}) :
                 \A d \in DOMAIN m \ {DimNames[1]} : m[d] = IntV(2)}}

Init ==
    /\ cache = <<>>
    /\ args = NoArgs
    /\ calls = <<>>
    /\ var \in Variables
    /\ chunks \in Requests
    /\ outcome = "idle"
    /\ engine \in normalize_chunks(chunk_shape(var, chunks), var.shape)
    /\ engine_called = FALSE
    /\ candidates = <<>>
    /\ engine_ret = NoEngineRet
    /\ result = <<>>
    /\ warnings = <<>>

Next == GetChunk

Spec == Init /\ [][Next]_vars

----------------------------------------------------------------------------
(* Properties of _get_breaks_cached *)

\* the cumulative sum of the first i entries
PrefixSum(s, i) == Sum(SubSeq(s, 1, i))

\* the preferred boundary offsets: the multiples of p strictly between 0 and
\* size, or the cumulative sums of all but the last element of the sequence
BoundaryOffsets(size, p) ==
    IF p.tag = "int"
    THEN {m \in 1..(size - 1) : m % p.n = 0}
    ELSE {PrefixSum(p.seq, i) : i \in 1..(Len(p.seq) - 1)}

\* the first cumulative sum of chunk_sizes, the final one excluded, that is
\* no preferred boundary offset; None when there is none
ExpectedBreak(c) ==
    LET broken == {i \in 1..(Len(c.chunk_sizes) - 1) :
                     PrefixSum(c.chunk_sizes, i)
                         \notin BoundaryOffsets(c.size, c.preferred_chunk_sizes)}
    IN IF broken = {} THEN NoneV
       ELSE IntV(PrefixSum(c.chunk_sizes,
                           CHOOSE i \in broken : \A j \in broken : i <= j))

\* C1: for every valid input, the detector returns the first running
\* cumulative sum of chunk_sizes (final one excluded) that is not a preferred
\* boundary offset, and None when every such sum is one.
C1_FirstBreak ==
    \A k \in 1..Len(calls) : calls[k].ret = ExpectedBreak(calls[k])

\* size 10, preferred (4, 6), chunk_sizes (3, 7) has returned 3
C1_Witness ==
    /\ Len(calls) = 1
    /\ calls[1].size = 10
    /\ calls[1].chunk_sizes = <<3, 7>>
    /\ calls[1].preferred_chunk_sizes = SeqV(<<4, 6>>)
    /\ calls[1].ret = IntV(3)

\* p repeated until size is reached, the final chunk shorter when needed
RECURSIVE UniformSeq(_, _)
UniformSeq(p, remaining) ==
    IF remaining <= p THEN <<remaining>>
    ELSE <<p>> \o UniformSeq(p, remaining - p)

\* C4: a call with a uniform preferred length p returns what the detector
\* gives for the sequence of p repeated up to size.
C4_UniformEquivalence ==
    \A k \in 1..Len(calls) :
        calls[k].preferred_chunk_sizes.tag = "int" =>
            calls[k].ret =
                get_breaks(calls[k].size, calls[k].chunk_sizes,
                           SeqV(UniformSeq(calls[k].preferred_chunk_sizes.n,
                                           calls[k].size)))

\* size 9, chunk_sizes (2, 7), preferred 3 has returned 2, as (3, 3, 3) gives
C4_Witness ==
    /\ Len(calls) = 1
    /\ calls[1].size = 9
    /\ calls[1].chunk_sizes = <<2, 7>>
    /\ calls[1].preferred_chunk_sizes = IntV(3)
    /\ calls[1].ret = IntV(2)
    /\ UniformSeq(3, 9) = <<3, 3, 3>>
    /\ get_breaks(9, <<2, 7>>, SeqV(<<3, 3, 3>>)) = IntV(2)

\* C8: a call with preferred = 1 returns None.
C8_TrivialPreference ==
    \A k \in 1..Len(calls) :
        calls[k].preferred_chunk_sizes = IntV(1) => calls[k].ret = NoneV

\* a call with preferred = 1 and several chunks has returned None
C8_Witness ==
    /\ Len(calls) = 1
    /\ calls[1].preferred_chunk_sizes = IntV(1)
    /\ Len(calls[1].chunk_sizes) >= 3
    /\ calls[1].ret = NoneV

\* C5: whatever calls and clears came before, and whether the call hit or
\* missed the cache, it returns what the function under the cache computes
\* for its arguments.
C5_CacheTransparent ==
    \A k \in 1..Len(calls) :
        calls[k].ret = get_breaks(calls[k].size, calls[k].chunk_sizes,
                                  calls[k].preferred_chunk_sizes)

\* a hit on a full cache that returned an offset
C5_Witness ==
    /\ Len(calls) = 1
    /\ calls[1].hit
    /\ calls[1].ret.tag = "int"
    /\ Len(cache) = maxsize

----------------------------------------------------------------------------
(* Properties of _get_chunk *)

Called == outcome # "idle"

Returned == outcome = "returned"

NDims == Len(var.dims)

HasPreference(i) == var.dims[i] \in DOMAIN var.preferred_chunks

Preference(i) == var.preferred_chunks[var.dims[i]]

\* the recorded preference is a sequence that does not sum to the size
BadPreference(i) ==
    /\ HasPreference(i)
    /\ Preference(i).tag = "seq"
    /\ Sum(Preference(i).seq) # var.shape[i]

NonEmpty == \A i \in 1..NDims : var.shape[i] # 0

WarningsFor(d) == SelectSeq(warnings, LAMBDA w : w[1] = d)

\* what the detector gives for dimension i and the engine's partition
BreakOf(i) == get_breaks(var.shape[i], engine_ret.out[i], Preference(i))

\* C2 as stated: every returned sequence sums to its dimension's size, and a
\* recorded preferred partition that does not sum to the size makes the call
\* fail.
C2_Original ==
    /\ Returned =>
        \A i \in 1..Len(result) : Sum(result[i][2]) = var.shape[i]
    /\ (Called /\ ~var.is_index /\ \E i \in 1..NDims : BadPreference(i)) =>
        outcome = "raised"

\* C2: the call returns, per dimension and in order, exactly the partition
\* the engine returned, which sums to the size; it fails exactly when the
\* engine fails.
C2_ReturnsEnginePartition ==
    /\ (Returned /\ ~var.is_index) =>
        /\ ~engine_ret.raised
        /\ Len(result) = NDims
        /\ \A i \in 1..NDims :
            /\ result[i] = <<var.dims[i], engine_ret.out[i]>>
            /\ Sum(result[i][2]) = var.shape[i]
    /\ outcome = "raised" <=> (engine_called /\ engine_ret.raised)

\* a call that returned although a recorded preference does not sum
C2_Witness ==
    /\ Returned
    /\ NDims = 2
    /\ NonEmpty
    /\ BadPreference(2)
    /\ Preference(2) = SeqV(<<1, 1>>)
    /\ result = <<<<"x", <<1, 1>>>>, <<"y", <<1>>>>>>

\* C3: for a variable with elements, a dimension with a recorded preference
\* gets exactly one warning, with its name and the offset, when the detector
\* returns an offset for it, and none when it returns None; the call returns.
C3_WarningPerBreak ==
    (Called /\ ~var.is_index /\ NonEmpty /\ ~engine_ret.raised) =>
        /\ Returned
        /\ \A i \in 1..NDims :
            HasPreference(i) =>
                WarningsFor(var.dims[i]) =
                    IF BreakOf(i).tag = "int"
                    THEN <<<<var.dims[i], BreakOf(i).n>>>>
                    ELSE <<>>

\* two dimensions with a preference: the first agrees, the second breaks
C3_Witness ==
    /\ Returned
    /\ NDims = 2
    /\ NonEmpty
    /\ HasPreference(1)
    /\ HasPreference(2)
    /\ BreakOf(1) = NoneV
    /\ Len(engine_ret.out[1]) = 2
    /\ Preference(2) = SeqV(<<1, 2>>)
    /\ engine_ret.out[2] = <<1, 1, 1>>
    /\ warnings = <<<<"y", 2>>>>
    /\ Len(result) = 2

\* C6: a dimension without a recorded preference gets no warning.
C6_NoPreferenceNoWarning ==
    Called =>
        \A i \in 1..NDims :
            ~HasPreference(i) => WarningsFor(var.dims[i]) = <<>>

\* a dimension without a preference was split, next to one that was warned of
C6_Witness ==
    /\ Returned
    /\ NDims = 2
    /\ NonEmpty
    /\ ~HasPreference(1)
    /\ Len(engine_ret.out[1]) = 2
    /\ HasPreference(2)
    /\ warnings = <<<<"y", 1>>>>

\* C7: a variable with zero elements gets no warning.
C7_EmptyNoWarning ==
    (Called /\ ~NonEmpty) => warnings = <<>>

\* an empty variable returned while the detector gives an offset for one of
\* its dimensions
C7_Witness ==
    /\ Returned
    /\ ~var.is_index
    /\ ~NonEmpty
    /\ \E i \in 1..NDims : HasPreference(i) /\ BreakOf(i).tag = "int"
    /\ warnings = <<>>

\* C9: for an IndexVariable the call returns the empty mapping, without
\* calling the engine and without a warning.
C9_IndexExclusion ==
    (Called /\ var.is_index) =>
        /\ Returned
        /\ result = <<>>
        /\ ~engine_called
        /\ warnings = <<>>
        /\ calls = <<>>

\* an IndexVariable with a preference and a request that would split it
C9_Witness ==
    /\ Returned
    /\ var.is_index
    /\ var.shape = <<2>>
    /\ HasPreference(1)
    /\ Preference(1) = IntV(1)
    /\ chunks.scalar
    /\ chunks.val = IntV(2)
    /\ result = <<>>

\* what the request holds for dimension i, None when it holds nothing
Requested(i) ==
    IF chunks.scalar THEN chunks.val
    ELSE IF var.dims[i] \in DOMAIN chunks.map THEN chunks.map[var.dims[i]]
    ELSE NoneV

\* the preferred description, the full size when none is recorded
PreferredOrSize(i) ==
    IF HasPreference(i) THEN Preference(i) ELSE IntV(var.shape[i])

\* C10 as stated: the candidate is the requested value when the request
\* holds a non-null value for the dimension, otherwise the preferred
\* description.
C10_Original ==
    engine_called =>
        /\ Len(candidates) = NDims
        /\ \A i \in 1..NDims :
            candidates[i] = IF Requested(i) # NoneV THEN Requested(i)
                            ELSE PreferredOrSize(i)

\* C10: the candidate is the requested value when the request holds a value
\* for the dimension that is neither null nor zero, otherwise the preferred
\* description; only the variable's own dimensions are looked up.
C10_Candidates ==
    engine_called =>
        /\ Len(candidates) = NDims
        /\ \A i \in 1..NDims :
            candidates[i] = IF Requested(i) \notin {NoneV, IntV(0)}
                            THEN Requested(i)
                            ELSE PreferredOrSize(i)

\* a dict naming an unknown dimension, 0 for x and 2 for y
C10_Witness ==
    /\ Returned
    /\ NDims = 2
    /\ ~chunks.scalar
    /\ DOMAIN chunks.map = {"x", "y", "z"}
    /\ chunks.map["x"] = IntV(0)
    /\ HasPreference(1)
    /\ Preference(1) = SeqV(<<1, 1>>)
    /\ HasPreference(2)
    /\ candidates = <<SeqV(<<1, 1>>), IntV(2)>>
    /\ Len(result) = 2

====
